---- MODULE Spec2Model ----
(***************************************************************************)
(* Job/step lifecycle of localgenius: the JobManager store                 *)
(* (jobs/job_manager.py) and the AgentRunner controller (agent_runner.py). *)
(*                                                                         *)
(* The store keeps one JSON file per job (files) and an in-memory summary  *)
(* index (jobs_index).  Every store operation is a read-modify-write of    *)
(* one whole job record.  The controller runs execute_task, resume_job and *)
(* retry_step as sequences of store calls around the executor; an          *)
(* administrative caller may change a job's status between any two of      *)
(* those calls.                                                            *)
(***************************************************************************)
EXTENDS Integers, Sequences, FiniteSets, TLC

VARIABLES
    files,        \* jobs_dir: job id -> persisted job record (one file per job)
    jobs_index,   \* JobManager.jobs_index: job id -> summary entry
    clock,        \* the wall clock read by datetime.now()
    ctl,          \* the controller invocation in progress (locals and position)
    faults,       \* whether the storage may refuse a write
    hist          \* history of the current controller run (observation only)

vars == <<files, jobs_index, clock, ctl, faults, hist>>

----------------------------------------------------------------------------
(* Bounds *)

MaxSteps == 2      \* longest plan the planner returns
MaxClock == 1      \* last instant of the clock (it stops there)

(* Values *)

None         == "None"     \* Python None in a string-valued field
NoTime       == -1         \* Python None in a timestamp or duration field

PENDING      == "pending"
PLANNING     == "planning"
RUNNING      == "running"
PAUSED       == "paused"
COMPLETED    == "completed"
FAILED       == "failed"
ABORTED      == "aborted"

JobStatus    == {PENDING, PLANNING, RUNNING, PAUSED, COMPLETED, FAILED, ABORTED}
StepStatus   == {PENDING, RUNNING, COMPLETED, FAILED}
StepTerminal == {COMPLETED, FAILED}
JobTerminal  == {COMPLETED, FAILED, ABORTED}

JobIds       == {"j1"}             \* ids uuid4 may hand out
UnknownId    == "j0"               \* an id that was never created
Tasks        == {"task1"}
Results      == {"r1"}             \* strings the executor returns
Errors       == {"e1"}             \* exceptions the executor raises
MemoryHits   == {<<"m1">>}         \* what memory.search_memory returns

\* f"Error executing step: {str(e)}"
error_message(e) == CASE e = "e1" -> "Error executing step: e1"
                      [] OTHER    -> "Error executing step"

\* the planner's step descriptions; a plan is the first n of them (n may be 0)
StepTexts == <<"a", "b", "c", "d", "e">>
Plans     == {SubSeq(StepTexts, 1, n) : n \in 0..MaxSteps}

Min(a, b) == IF a <= b THEN a ELSE b

----------------------------------------------------------------------------
(* JobManager: the store.  Each operation maps the store state             *)
(* S = [files, jobs_index] to the new state and the value returned.        *)

Store == [files |-> files, jobs_index |-> jobs_index]

Ret(S, r) == [files |-> S.files, jobs_index |-> S.jobs_index, ret |-> r]

\* _save_job: json.dump of the whole record; io is FALSE when the write raises
_save_job(S, job_id, job_data, io) ==
    IF io
    THEN [files |-> [j \in DOMAIN S.files \cup {job_id} |->
                        IF j = job_id THEN job_data ELSE S.files[j]],
          jobs_index |-> S.jobs_index,
          ret |-> "True"]
    ELSE Ret(S, "False")

\* get_job: None unless the id is in the index and its file can be read
get_job_found(S, job_id) ==
    job_id \in DOMAIN S.jobs_index /\ job_id \in DOMAIN S.files

get_job(S, job_id) == S.files[job_id]

\* the index with some fields of one entry replaced, when the entry exists
IndexUpdate(index, job_id, fields) ==
    IF job_id \in DOMAIN index
    THEN [index EXCEPT ![job_id] =
            [k \in DOMAIN index[job_id] |->
                IF k \in DOMAIN fields THEN fields[k] ELSE index[job_id][k]]]
    ELSE index

\* a create_job that starts the index afresh with the new entry
create_job_resets_index(S, job_id, task, now, io) ==
    LET job_data == [task |-> task, status |-> PENDING,
                     created_at |-> now, updated_at |-> now,
                     plan |-> <<>>, steps |-> <<>>, memory_context |-> <<>>,
                     artifacts |-> <<>>, metadata |-> <<>>]
        entry == [task |-> task, status |-> PENDING,
                  created_at |-> now, updated_at |-> now]
        saved == _save_job([files |-> S.files, jobs_index |-> [j \in {job_id} |-> entry]],
                           job_id, job_data, io)
    IN  [saved EXCEPT !.ret = job_id]

create_job(S, job_id, task, now, io) ==
    LET job_data == [task |-> task, status |-> PENDING,
                     created_at |-> now, updated_at |-> now,
                     plan |-> <<>>, steps |-> <<>>, memory_context |-> <<>>,
                     artifacts |-> <<>>, metadata |-> <<>>]
        entry == [task |-> task, status |-> PENDING,
                  created_at |-> now, updated_at |-> now]
        index == [j \in DOMAIN S.jobs_index \cup {job_id} |->
                     IF j = job_id THEN entry ELSE S.jobs_index[j]]
        saved == _save_job([files |-> S.files, jobs_index |-> index],
                           job_id, job_data, io)
    IN  [saved EXCEPT !.ret = job_id]

update_job_status(S, job_id, status, now, io) ==
    IF ~get_job_found(S, job_id) THEN Ret(S, "False")
    ELSE LET job_data == [get_job(S, job_id) EXCEPT
                             !.status = status, !.updated_at = now]
             index == IndexUpdate(S.jobs_index, job_id,
                         [status |-> status, updated_at |-> now])
         IN  _save_job([files |-> S.files, jobs_index |-> index],
                       job_id, job_data, io)

\* faulty variant: steps numbered from 1
new_step_one_based(i, step) ==
    [index |-> i + 1, description |-> step, status |-> PENDING, result |-> None,
     started_at |-> NoTime, completed_at |-> NoTime, duration |-> NoTime]

new_step(i, step) ==
    [index |-> i, description |-> step, status |-> PENDING, result |-> None,
     started_at |-> NoTime, completed_at |-> NoTime, duration |-> NoTime]

\* a set_job_plan that keeps the steps the job already has
set_job_plan_keeps_steps(S, job_id, plan, now, io) ==
    IF ~get_job_found(S, job_id) THEN Ret(S, "False")
    ELSE LET old == get_job(S, job_id).steps
             job_data == [get_job(S, job_id) EXCEPT
                             !.plan = plan, !.updated_at = now,
                             !.steps = [p \in 1..Len(plan) |->
                                          IF p <= Len(old)
                                          THEN [old[p] EXCEPT !.description = plan[p]]
                                          ELSE new_step(p - 1, plan[p])],
                             !.status = RUNNING]
             index == IndexUpdate(S.jobs_index, job_id,
                         [status |-> RUNNING, updated_at |-> now])
         IN  _save_job([files |-> S.files, jobs_index |-> index],
                       job_id, job_data, io)

\* enumerate(plan) counts from 0; the sequence position is index + 1
set_job_plan(S, job_id, plan, now, io) ==
    IF ~get_job_found(S, job_id) THEN Ret(S, "False")
    ELSE LET job_data == [get_job(S, job_id) EXCEPT
                             !.plan = plan, !.updated_at = now,
                             !.steps = [p \in 1..Len(plan) |-> new_step(p - 1, plan[p])],
                             !.status = RUNNING]
             index == IndexUpdate(S.jobs_index, job_id,
                         [status |-> RUNNING, updated_at |-> now])
         IN  _save_job([files |-> S.files, jobs_index |-> index],
                       job_id, job_data, io)

\* Python list indexing: a negative index counts from the end
ListPos(n, step_index) == IF step_index < 0 THEN n + step_index + 1 ELSE step_index + 1

\* a start_step that also marks the job running
start_step_marks_job_running(S, job_id, step_index, now1, now2, io) ==
    IF ~get_job_found(S, job_id) THEN Ret(S, "False")
    ELSE LET old == get_job(S, job_id)
             n   == Len(old.steps)
             p   == ListPos(n, step_index)
         IN  IF step_index >= n THEN Ret(S, "False")
             ELSE IF p < 1 THEN Ret(S, "IndexError")
             ELSE LET job_data == [old EXCEPT
                                     !.steps[p].status = RUNNING,
                                     !.steps[p].started_at = now1,
                                     !.status = RUNNING,
                                     !.updated_at = now2]
                      index == IndexUpdate(S.jobs_index, job_id,
                                  [status |-> RUNNING, updated_at |-> now2])
                  IN  _save_job([files |-> S.files, jobs_index |-> index],
                                job_id, job_data, io)

\* start_step without the assignment of started_at (job_manager.py 224)
start_step_without_started_at(S, job_id, step_index, now1, now2, io) ==
    IF ~get_job_found(S, job_id) THEN Ret(S, "False")
    ELSE LET old == get_job(S, job_id)
             n   == Len(old.steps)
             p   == ListPos(n, step_index)
         IN  IF step_index >= n THEN Ret(S, "False")
             ELSE IF p < 1 THEN Ret(S, "IndexError")
             ELSE LET job_data == [old EXCEPT
                                     !.steps[p].status = RUNNING,
                                     !.updated_at = now2]
                      index == IndexUpdate(S.jobs_index, job_id,
                                  [updated_at |-> now2])
                  IN  _save_job([files |-> S.files, jobs_index |-> index],
                                job_id, job_data, io)

\* start_step without the assignment of the step's status (job_manager.py 223)
start_step_keeps_status(S, job_id, step_index, now1, now2, io) ==
    IF ~get_job_found(S, job_id) THEN Ret(S, "False")
    ELSE LET old == get_job(S, job_id)
             n   == Len(old.steps)
             p   == ListPos(n, step_index)
         IN  IF step_index >= n THEN Ret(S, "False")
             ELSE IF p < 1 THEN Ret(S, "IndexError")
             ELSE LET job_data == [old EXCEPT
                                     !.steps[p].started_at = now1,
                                     !.updated_at = now2]
                      index == IndexUpdate(S.jobs_index, job_id,
                                  [updated_at |-> now2])
                  IN  _save_job([files |-> S.files, jobs_index |-> index],
                                job_id, job_data, io)

start_step(S, job_id, step_index, now1, now2, io) ==
    IF ~get_job_found(S, job_id) THEN Ret(S, "False")
    ELSE LET old == get_job(S, job_id)
             n   == Len(old.steps)
             p   == ListPos(n, step_index)
         IN  IF step_index >= n THEN Ret(S, "False")
             ELSE IF p < 1 THEN Ret(S, "IndexError")
             ELSE LET job_data == [old EXCEPT
                                     !.steps[p].status = RUNNING,
                                     !.steps[p].started_at = now1,
                                     !.updated_at = now2]
                      index == IndexUpdate(S.jobs_index, job_id,
                                  [updated_at |-> now2])
                  IN  _save_job([files |-> S.files, jobs_index |-> index],
                                job_id, job_data, io)

all_completed(steps) == \A p \in 1..Len(steps) : steps[p].status \in StepTerminal
any_failed(steps)    == \E p \in 1..Len(steps) : steps[p].status = FAILED

\* faulty variant: the job fails as soon as one step has failed
recomputed_status_fail_fast(old_status, steps) ==
    IF any_failed(steps) THEN FAILED
    ELSE IF all_completed(steps) THEN COMPLETED ELSE old_status

\* faulty variant: a failed step does not make the job failed
recomputed_status_never_failed(old_status, steps) ==
    IF all_completed(steps) THEN COMPLETED ELSE old_status

\* the job status complete_step leaves, given the steps after its update
recomputed_status(old_status, steps) ==
    IF all_completed(steps)
    THEN (IF any_failed(steps) THEN FAILED ELSE COMPLETED)
    ELSE old_status

\* faulty variant: the duration is counted from instant 0
step_duration_from_zero(started_at, now2) == now2

\* now1 is `timestamp`, now2 is `completed_time` (two reads of the clock)
step_duration(started_at, now2) ==
    IF started_at # NoTime THEN now2 - started_at ELSE NoTime

\* a complete_step that, on a failed step, drops the results of the others
complete_step_failure_drops_results(S, job_id, step_index, result, status, now1, now2, io) ==
    IF ~get_job_found(S, job_id) THEN Ret(S, "False")
    ELSE LET old == get_job(S, job_id)
             n   == Len(old.steps)
             p   == ListPos(n, step_index)
         IN  IF step_index >= n THEN Ret(S, "False")
             ELSE IF p < 1 THEN Ret(S, "IndexError")
             ELSE LET steps == [q \in 1..n |->
                                  IF q = p
                                  THEN [old.steps[q] EXCEPT
                                          !.status = status,
                                          !.result = result,
                                          !.completed_at = now1,
                                          !.duration =
                                             step_duration(old.steps[p].started_at, now2)]
                                  ELSE IF status = FAILED
                                  THEN [old.steps[q] EXCEPT !.result = None]
                                  ELSE old.steps[q]]
                      new_status == recomputed_status(old.status, steps)
                      job_data == [old EXCEPT !.steps = steps,
                                              !.updated_at = now1,
                                              !.status = new_status]
                      index == IndexUpdate(S.jobs_index, job_id,
                                  IF all_completed(steps)
                                  THEN [status |-> new_status, updated_at |-> now1]
                                  ELSE [updated_at |-> now1])
                  IN  _save_job([files |-> S.files, jobs_index |-> index],
                                job_id, job_data, io)

\* a complete_step that recomputes the job status from the steps as read
complete_step_recomputes_from_old_steps(S, job_id, step_index, result, status, now1, now2, io) ==
    IF ~get_job_found(S, job_id) THEN Ret(S, "False")
    ELSE LET old == get_job(S, job_id)
             n   == Len(old.steps)
             p   == ListPos(n, step_index)
         IN  IF step_index >= n THEN Ret(S, "False")
             ELSE IF p < 1 THEN Ret(S, "IndexError")
             ELSE LET steps == [old.steps EXCEPT
                                  ![p].status = status,
                                  ![p].result = result,
                                  ![p].completed_at = now1,
                                  ![p].duration =
                                      step_duration(old.steps[p].started_at, now2)]
                      new_status == recomputed_status(old.status, old.steps)
                      job_data == [old EXCEPT !.steps = steps,
                                              !.updated_at = now1,
                                              !.status = new_status]
                      index == IndexUpdate(S.jobs_index, job_id,
                                  IF all_completed(old.steps)
                                  THEN [status |-> new_status, updated_at |-> now1]
                                  ELSE [updated_at |-> now1])
                  IN  _save_job([files |-> S.files, jobs_index |-> index],
                                job_id, job_data, io)

complete_step(S, job_id, step_index, result, status, now1, now2, io) ==
    IF ~get_job_found(S, job_id) THEN Ret(S, "False")
    ELSE LET old == get_job(S, job_id)
             n   == Len(old.steps)
             p   == ListPos(n, step_index)
         IN  IF step_index >= n THEN Ret(S, "False")
             ELSE IF p < 1 THEN Ret(S, "IndexError")
             ELSE LET steps == [old.steps EXCEPT
                                  ![p].status = status,
                                  ![p].result = result,
                                  ![p].completed_at = now1,
                                  ![p].duration =
                                      step_duration(old.steps[p].started_at, now2)]
                      new_status == recomputed_status(old.status, steps)
                      job_data == [old EXCEPT !.steps = steps,
                                              !.updated_at = now1,
                                              !.status = new_status]
                      index == IndexUpdate(S.jobs_index, job_id,
                                  IF all_completed(steps)
                                  THEN [status |-> new_status, updated_at |-> now1]
                                  ELSE [updated_at |-> now1])
                  IN  _save_job([files |-> S.files, jobs_index |-> index],
                                job_id, job_data, io)

set_memory_context(S, job_id, memory_context, now, io) ==
    IF ~get_job_found(S, job_id) THEN Ret(S, "False")
    ELSE LET job_data == [get_job(S, job_id) EXCEPT
                             !.memory_context = memory_context,
                             !.updated_at = now]
             index == IndexUpdate(S.jobs_index, job_id, [updated_at |-> now])
         IN  _save_job([files |-> S.files, jobs_index |-> index],
                       job_id, job_data, io)

\* an add_artifact that puts the new artifact first
add_artifact_prepends(S, job_id, artifact_type, name, path, metadata, now1, now2, io) ==
    IF ~get_job_found(S, job_id) THEN Ret(S, "False")
    ELSE LET artifact == [type |-> artifact_type, name |-> name, path |-> path,
                          created_at |-> now1, metadata |-> metadata]
             job_data == [get_job(S, job_id) EXCEPT
                             !.artifacts = <<artifact>> \o @,
                             !.updated_at = now2]
             index == IndexUpdate(S.jobs_index, job_id, [updated_at |-> now2])
         IN  _save_job([files |-> S.files, jobs_index |-> index],
                       job_id, job_data, io)

\* now1 is the artifact's created_at, now2 the job's updated_at
add_artifact(S, job_id, artifact_type, name, path, metadata, now1, now2, io) ==
    IF ~get_job_found(S, job_id) THEN Ret(S, "False")
    ELSE LET artifact == [type |-> artifact_type, name |-> name, path |-> path,
                          created_at |-> now1, metadata |-> metadata]
             job_data == [get_job(S, job_id) EXCEPT
                             !.artifacts = Append(@, artifact),
                             !.updated_at = now2]
             index == IndexUpdate(S.jobs_index, job_id, [updated_at |-> now2])
         IN  _save_job([files |-> S.files, jobs_index |-> index],
                       job_id, job_data, io)

\* job_data['metadata'][key] = value
set_metadata(S, job_id, key, value, now, io) ==
    IF ~get_job_found(S, job_id) THEN Ret(S, "False")
    ELSE LET old == get_job(S, job_id).metadata
             job_data == [get_job(S, job_id) EXCEPT
                             !.metadata = [k \in DOMAIN old \cup {key} |->
                                             IF k = key THEN value ELSE old[k]],
                             !.updated_at = now]
             index == IndexUpdate(S.jobs_index, job_id, [updated_at |-> now])
         IN  _save_job([files |-> S.files, jobs_index |-> index],
                       job_id, job_data, io)

abort_job(S, job_id, now, io)  == update_job_status(S, job_id, ABORTED, now, io)
pause_job(S, job_id, now, io)  == update_job_status(S, job_id, PAUSED, now, io)
resume_job(S, job_id, now, io) == update_job_status(S, job_id, RUNNING, now, io)

\* a function without one of its keys
Without(f, key) == [j \in DOMAIN f \ {key} |-> f[j]]

\* a delete_job that removes the file and forgets the index entry
delete_job_keeps_index(S, job_id, io) ==
    IF job_id \notin DOMAIN S.jobs_index THEN Ret(S, "False")
    ELSE IF job_id \in DOMAIN S.files /\ ~io THEN Ret(S, "False")
    ELSE [files |-> Without(S.files, job_id),
          jobs_index |-> S.jobs_index,
          ret |-> "True"]

\* delete_job: io is FALSE when os.remove raises
delete_job(S, job_id, io) ==
    IF job_id \notin DOMAIN S.jobs_index THEN Ret(S, "False")
    ELSE IF job_id \in DOMAIN S.files /\ ~io THEN Ret(S, "False")
    ELSE [files |-> Without(S.files, job_id),
          jobs_index |-> Without(S.jobs_index, job_id),
          ret |-> "True"]

\* a sort that forgets reverse=True: oldest first
RECURSIVE oldest_first(_, _)
oldest_first(index, ids) ==
    IF ids = {} THEN <<>>
    ELSE LET j == CHOOSE x \in ids :
                     \A y \in ids : index[x].created_at <= index[y].created_at
         IN  <<j>> \o oldest_first(index, ids \ {j})

\* list_jobs returns index entries; the model names each by its 'id'.
\* jobs.sort(key=created_at, reverse=True): newest first (entries created at
\* the same instant keep the order of the index, which the model leaves open)
RECURSIVE newest_first(_, _)
newest_first(index, ids) ==
    IF ids = {} THEN <<>>
    ELSE LET j == CHOOSE x \in ids :
                     \A y \in ids : index[x].created_at >= index[y].created_at
         IN  <<j>> \o newest_first(index, ids \ {j})

\* jobs[:limit]; a negative limit drops that many entries from the end
truncate(jobs, limit) ==
    IF limit >= 0 THEN SubSeq(jobs, 1, Min(limit, Len(jobs)))
    ELSE SubSeq(jobs, 1, Len(jobs) + limit)

\* status None (or omitted) means no filter
list_jobs(S, limit, status) ==
    LET ids == {j \in DOMAIN S.jobs_index :
                   status = None \/ S.jobs_index[j].status = status}
    IN  truncate(newest_first(S.jobs_index, ids), limit)

ListLimits == -1..2

\* a new JobManager over the same directory: the index is rebuilt from the files
_load_jobs_index(fs) ==
    [j \in DOMAIN fs |->
        [task |-> fs[j].task, status |-> fs[j].status,
         created_at |-> fs[j].created_at, updated_at |-> fs[j].updated_at]]

----------------------------------------------------------------------------
(* AgentRunner: the controller.  One invocation at a time runs as a        *)
(* sequence of store calls; ctl holds its locals and pc the place in the   *)
(* method it has reached.  The clock's unit is the time one executor call  *)
(* takes: store calls take no time on that scale.                          *)

NoJob == [status |-> None, plan |-> <<>>, steps |-> <<>>]

\* a controller method not invoked
NoCall == [op |-> "none", pc |-> "idle", job_id |-> UnknownId, i |-> 0,
           plan |-> <<>>, job |-> NoJob, ret |-> "none"]

\* second is the invocation of another process, at rest while this one runs
Idle == [op |-> "none", pc |-> "idle", job_id |-> UnknownId, i |-> 0,
         plan |-> <<>>, job |-> NoJob, ret |-> "none", second |-> NoCall]

\* hist observes the current invocation: the indices it called start_step on,
\* where resume_job's scan landed, the index its loop stopped before, and
\* whether the last administrative call that succeeded during it was an abort
\* with a step at the executor ("abort_run") or a pause or abort between a
\* complete_step and the loop's next check ("pause_check", "abort_check");
\* for a direct caller of the store, what it passed to each complete_step
NoHist == [started |-> <<>>, scanned |-> FALSE, first |-> -1, stopped |-> -1,
           admin |-> "none", passed |-> <<>>]

IoOutcomes == IF faults THEN {TRUE, FALSE} ELSE {TRUE}

Apply(R) == /\ files' = R.files
            /\ jobs_index' = R.jobs_index

Returned(ret) == [ctl EXCEPT !.pc = "done", !.ret = ret]

\* faulty variant: resume_job accepts every job that has not finished
resumable_unless_finished(status) == status \notin {COMPLETED, FAILED}

\* resume_job accepts only these job statuses
resumable(status) == status \in {PAUSED, RUNNING}

\* faulty variant: the loops stop for an aborted job only
stops_loop_on_abort_only(status) == status = ABORTED

\* the loops stop before a step when the job has one of these statuses
stops_loop(status) == status \in {ABORTED, PAUSED}

\* faulty variant: the scan of get_next_pending_step, which skips running steps
first_pending(steps) ==
    IF \E p \in 1..Len(steps) : steps[p].status = PENDING
    THEN (CHOOSE p \in 1..Len(steps) :
            /\ steps[p].status = PENDING
            /\ \A q \in 1..(p - 1) : steps[q].status # PENDING) - 1
    ELSE -1

\* resume_job's scan: the first index whose step is pending or running, or -1
first_incomplete(steps) ==
    IF \E p \in 1..Len(steps) : steps[p].status \in {PENDING, RUNNING}
    THEN (CHOOSE p \in 1..Len(steps) :
            /\ steps[p].status \in {PENDING, RUNNING}
            /\ \A q \in 1..(p - 1) : steps[q].status \notin {PENDING, RUNNING}) - 1
    ELSE -1

\* retry_step's validation of the index
valid_index(step_index, steps) == ~(step_index < 0 \/ step_index >= Len(steps))

\* execute_task, up to the loop -------------------------------------------

execute_task_create(task) ==
    /\ ctl.pc \in {"idle", "done"}
    /\ \E job_id \in JobIds \ (DOMAIN jobs_index \cup DOMAIN files), io \in IoOutcomes :
          /\ Apply(create_job(Store, job_id, task, clock, io))
          /\ ctl' = [Idle EXCEPT !.op = "execute_task", !.pc = "planning",
                                 !.job_id = job_id]
    /\ hist' = NoHist
    /\ UNCHANGED <<clock, faults>>

execute_task_planning ==
    /\ ctl.op = "execute_task" /\ ctl.pc = "planning"
    /\ \E io \in IoOutcomes :
          Apply(update_job_status(Store, ctl.job_id, PLANNING, clock, io))
    /\ ctl' = [ctl EXCEPT !.pc = "memory"]
    /\ UNCHANGED <<clock, faults, hist>>

execute_task_memory ==
    /\ ctl.op = "execute_task" /\ ctl.pc = "memory"
    /\ \E similar \in MemoryHits, io \in IoOutcomes :
          IF similar # <<>>
          THEN Apply(set_memory_context(Store, ctl.job_id, similar, clock, io))
          ELSE UNCHANGED <<files, jobs_index>>
    /\ ctl' = [ctl EXCEPT !.pc = "plan"]
    /\ UNCHANGED <<clock, faults, hist>>

execute_task_plan ==
    /\ ctl.op = "execute_task" /\ ctl.pc = "plan"
    /\ \E plan \in Plans, io \in IoOutcomes :
          /\ Apply(set_job_plan(Store, ctl.job_id, plan, clock, io))
          /\ ctl' = IF Len(plan) = 0
                    THEN [ctl EXCEPT !.pc = "return"]
                    ELSE [ctl EXCEPT !.pc = "check", !.plan = plan, !.i = 0]
    /\ UNCHANGED <<clock, faults, hist>>

\* enumerate(plan) is empty: the loop body never runs and the method returns
execute_task_return ==
    /\ ctl.op = "execute_task" /\ ctl.pc = "return"
    /\ ctl' = Returned(ctl.job_id)
    /\ UNCHANGED <<files, jobs_index, clock, faults, hist>>

\* resume_job, up to the loop ---------------------------------------------

\* the invocation as it stands after resume_job's entry checks
resume_job_entry(job_id) ==
    LET found == get_job_found(Store, job_id)
        call  == [Idle EXCEPT !.op = "resume_job", !.job_id = job_id]
    IN  IF ~found
        THEN [call EXCEPT !.pc = "done", !.ret = "False"]
        ELSE LET job == get_job(Store, job_id)
             IN  IF ~resumable(job.status)
                 THEN [call EXCEPT !.pc = "done", !.ret = "False"]
                 ELSE [call EXCEPT !.pc = "running",
                          !.job = [status |-> job.status, plan |-> job.plan,
                                   steps |-> job.steps]]

resume_job_read(job_id) ==
    /\ ctl.pc \in {"idle", "done"}
    /\ ctl' = resume_job_entry(job_id)
    /\ hist' = NoHist
    /\ UNCHANGED <<files, jobs_index, clock, faults>>

resume_job_running ==
    /\ ctl.op = "resume_job" /\ ctl.pc = "running"
    /\ \E io \in IoOutcomes :
          Apply(update_job_status(Store, ctl.job_id, RUNNING, clock, io))
    /\ LET k == first_incomplete(ctl.job.steps)
       IN  /\ ctl' = IF k = -1 THEN Returned("False")
                     ELSE [ctl EXCEPT !.pc = "check", !.i = k]
           /\ hist' = [hist EXCEPT !.scanned = TRUE, !.first = k]
    /\ UNCHANGED <<clock, faults>>

\* retry_step, up to the step ---------------------------------------------

\* the invocation as it stands after retry_step's entry checks
retry_step_entry(job_id, step_index) ==
    LET found == get_job_found(Store, job_id)
        call  == [Idle EXCEPT !.op = "retry_step", !.job_id = job_id,
                              !.i = step_index]
    IN  IF ~found
        THEN [call EXCEPT !.pc = "done", !.ret = "False"]
        ELSE LET job == get_job(Store, job_id)
             IN  IF ~valid_index(step_index, job.steps)
                 THEN [call EXCEPT !.pc = "done", !.ret = "False"]
                 ELSE [call EXCEPT !.pc = "start",
                          !.job = [status |-> job.status, plan |-> job.plan,
                                   steps |-> job.steps]]

retry_step_read(job_id, step_index) ==
    /\ ctl.pc \in {"idle", "done"}
    /\ ctl' = retry_step_entry(job_id, step_index)
    /\ hist' = NoHist
    /\ UNCHANGED <<files, jobs_index, clock, faults>>

\* the per-step path shared by the three methods --------------------------

\* faulty variant: the loop ends one step early
LoopLen_one_short ==
    (IF ctl.op = "execute_task" THEN Len(ctl.plan) ELSE Len(ctl.job.steps)) - 1

LoopLen == IF ctl.op = "execute_task" THEN Len(ctl.plan) ELSE Len(ctl.job.steps)

\* what the method returns when its loop ends
LoopReturn == IF ctl.op = "execute_task" THEN ctl.job_id ELSE "True"

\* get_job before each step: stop when the job is aborted or paused
loop_check ==
    /\ ctl.op \in {"execute_task", "resume_job"} /\ ctl.pc = "check"
    /\ IF ~get_job_found(Store, ctl.job_id)
       THEN /\ ctl' = Returned("TypeError")
            /\ hist' = hist
       ELSE IF stops_loop(get_job(Store, ctl.job_id).status)
       THEN /\ ctl' = Returned(LoopReturn)
            /\ hist' = [hist EXCEPT !.stopped = ctl.i]
       ELSE /\ ctl' = [ctl EXCEPT !.pc = "start"]
            /\ hist' = hist
    /\ UNCHANGED <<files, jobs_index, clock, faults>>

\* `step = job['steps'][i]`: resume_job and retry_step read the step from the
\* job they fetched on entry and use its description only; the entry is never
\* read again, so from here the model keeps its description and status alone
step_taken(steps, i) ==
    IF i + 1 \in DOMAIN steps
    THEN [steps EXCEPT ![i + 1].result = None,
                       ![i + 1].started_at = NoTime,
                       ![i + 1].completed_at = NoTime,
                       ![i + 1].duration = NoTime]
    ELSE steps

loop_start_step ==
    /\ ctl.pc = "start"
    /\ \E io \in IoOutcomes :
          Apply(start_step(Store, ctl.job_id, ctl.i, clock, clock, io))
    /\ ctl' = [ctl EXCEPT !.pc = "run", !.job.steps = step_taken(@, ctl.i)]
    /\ hist' = [hist EXCEPT !.started = Append(@, ctl.i)]
    /\ UNCHANGED <<clock, faults>>

\* faulty variant: a failed step ends the loop
AfterStep_stops_on_failure(ok) ==
    IF ctl.op = "retry_step"
    THEN Returned(IF ok THEN "True" ELSE "False")
    ELSE IF ok /\ ctl.i + 1 < LoopLen
    THEN [ctl EXCEPT !.pc = "check", !.i = ctl.i + 1]
    ELSE Returned(LoopReturn)

\* faulty variant: a failed step is run again
AfterStep_repeats_failed(ok) ==
    IF ctl.op = "retry_step"
    THEN Returned(IF ok THEN "True" ELSE "False")
    ELSE IF ~ok
    THEN [ctl EXCEPT !.pc = "check"]
    ELSE IF ctl.i + 1 < LoopLen
    THEN [ctl EXCEPT !.pc = "check", !.i = ctl.i + 1]
    ELSE Returned(LoopReturn)

\* where the method goes after complete_step of step i
AfterStep(ok) ==
    IF ctl.op = "retry_step"
    THEN Returned(IF ok THEN "True" ELSE "False")
    ELSE IF ctl.i + 1 < LoopLen
    THEN [ctl EXCEPT !.pc = "check", !.i = ctl.i + 1]
    ELSE Returned(LoopReturn)

\* the instant the executor call ends
ExecutorEnd == Min(clock + 1, MaxClock)

\* planner.execute_step returns and the step is completed
loop_step_succeeds ==
    /\ ctl.pc = "run"
    /\ \E result \in Results, io \in IoOutcomes :
          Apply(complete_step(Store, ctl.job_id, ctl.i, result, COMPLETED,
                              ExecutorEnd, ExecutorEnd, io))
    /\ clock' = ExecutorEnd
    /\ ctl' = AfterStep(TRUE)
    /\ UNCHANGED <<faults, hist>>

\* planner.execute_step raises and the step is failed
loop_step_fails ==
    /\ ctl.pc = "run"
    /\ \E e \in Errors, io \in IoOutcomes :
          Apply(complete_step(Store, ctl.job_id, ctl.i, error_message(e), FAILED,
                              ExecutorEnd, ExecutorEnd, io))
    /\ clock' = ExecutorEnd
    /\ ctl' = AfterStep(FALSE)
    /\ UNCHANGED <<faults, hist>>

\* administrative calls made while the controller runs or rests -----------

InLoop == ctl.op \in {"execute_task", "resume_job"}

Observed(R, op) ==
    IF R.ret # "True" THEN hist
    ELSE [hist EXCEPT !.admin =
            IF InLoop /\ ctl.pc = "run" /\ op = "abort" THEN "abort_run"
            ELSE IF InLoop /\ ctl.pc = "check" /\ hist.started # <<>> /\ op = "abort"
            THEN "abort_check"
            ELSE IF InLoop /\ ctl.pc = "check" /\ hist.started # <<>> /\ op = "pause"
            THEN "pause_check"
            ELSE "none"]

admin_abort_job(job_id) ==
    /\ \E io \in IoOutcomes :
          LET R == abort_job(Store, job_id, clock, io)
          IN  Apply(R) /\ hist' = Observed(R, "abort")
    /\ UNCHANGED <<clock, ctl, faults>>

admin_pause_job(job_id) ==
    /\ \E io \in IoOutcomes :
          LET R == pause_job(Store, job_id, clock, io)
          IN  Apply(R) /\ hist' = Observed(R, "pause")
    /\ UNCHANGED <<clock, ctl, faults>>

admin_resume_job(job_id) ==
    /\ \E io \in IoOutcomes :
          LET R == resume_job(Store, job_id, clock, io)
          IN  Apply(R) /\ hist' = Observed(R, "resume")
    /\ UNCHANGED <<clock, ctl, faults>>

\* the process dies and a new one starts over the same jobs_dir
restart ==
    /\ ctl.pc \notin {"idle", "done"}
    /\ ctl' = Idle
    /\ hist' = NoHist
    /\ jobs_index' = _load_jobs_index(files)
    /\ UNCHANGED <<files, clock, faults>>

----------------------------------------------------------------------------
(* The controller with an administrative caller, over a fresh jobs_dir.    *)

Init ==
    /\ files = <<>>
    /\ jobs_index = <<>>
    /\ clock = 0
    /\ ctl = Idle
    /\ faults = FALSE
    /\ hist = NoHist

\* the (job_id, step_index) pairs retry_step is called with: every index from
\* -1 to one past the longest plan on a known id, one call on an unknown id
RetryCalls ==
    {<<job_id, step_index>> : job_id \in JobIds, step_index \in -1..MaxSteps}
       \cup {<<UnknownId, 0>>}

Next ==
    \/ \E task \in Tasks : execute_task_create(task)
    \/ execute_task_planning
    \/ execute_task_memory
    \/ execute_task_plan
    \/ execute_task_return
    \/ \E job_id \in JobIds \cup {UnknownId} : resume_job_read(job_id)
    \/ resume_job_running
    \/ \E call \in RetryCalls : retry_step_read(call[1], call[2])
    \/ loop_check
    \/ loop_start_step
    \/ loop_step_succeeds
    \/ loop_step_fails
    \/ \E job_id \in JobIds : admin_abort_job(job_id)
    \/ \E job_id \in JobIds : admin_pause_job(job_id)
    \/ \E job_id \in JobIds : admin_resume_job(job_id)

Spec == Init /\ [][Next]_vars

(* The same, with the process allowed to die in the middle of a method.    *)

CrashNext ==
    \/ Next
    \/ restart

CrashSpec == Init /\ [][CrashNext]_vars

(* The controller alone: no administrative call and no crash, and a        *)
(* method that has begun keeps running.                                    *)

ControllerNext ==
    \/ \E task \in Tasks : execute_task_create(task)
    \/ execute_task_planning
    \/ execute_task_memory
    \/ execute_task_plan
    \/ execute_task_return
    \/ \E job_id \in JobIds \cup {UnknownId} : resume_job_read(job_id)
    \/ resume_job_running
    \/ \E call \in RetryCalls : retry_step_read(call[1], call[2])
    \/ loop_check
    \/ loop_start_step
    \/ loop_step_succeeds
    \/ loop_step_fails

QuietSpec == Init /\ [][ControllerNext]_vars /\ WF_vars(ControllerNext)

(* Recovery: execute_task may die once its plan is persisted; a new        *)
(* process over the same jobs_dir then calls resume_job.  No administrative *)
(* call; whatever has begun keeps running.                                 *)

crash_in_execute_task ==
    /\ ctl.op = "execute_task" /\ ctl.pc \in {"return", "check", "start", "run"}
    /\ restart

RecoverySteps ==
    \/ \E task \in Tasks : execute_task_create(task)
    \/ execute_task_planning
    \/ execute_task_memory
    \/ execute_task_plan
    \/ execute_task_return
    \/ \E job_id \in JobIds : resume_job_read(job_id)
    \/ resume_job_running
    \/ loop_check
    \/ loop_start_step
    \/ loop_step_succeeds
    \/ loop_step_fails

RecoveryNext ==
    \/ RecoverySteps
    \/ crash_in_execute_task

RecoverySpec == Init /\ [][RecoveryNext]_vars /\ WF_vars(RecoverySteps)

----------------------------------------------------------------------------
(* The store driven directly, as test_job_lifecycle and                    *)
(* test_job_with_failure drive it: create_job, set_job_plan, then          *)
(* start_step and complete_step on each index in order.  Time may pass     *)
(* between any two calls.                                                  *)

\* the result strings a caller passes to complete_step
PassedResults == Results \cup {error_message(e) : e \in Errors}

test_create_job(task) ==
    /\ ctl.pc = "idle"
    /\ \E job_id \in JobIds \ (DOMAIN jobs_index \cup DOMAIN files), io \in IoOutcomes :
          /\ Apply(create_job(Store, job_id, task, clock, io))
          /\ ctl' = [Idle EXCEPT !.op = "test_job_lifecycle", !.pc = "set_plan",
                                 !.job_id = job_id]
    /\ hist' = NoHist
    /\ UNCHANGED <<clock, faults>>

test_set_job_plan ==
    /\ ctl.op = "test_job_lifecycle" /\ ctl.pc = "set_plan"
    /\ \E plan \in Plans \ {<<>>}, io \in IoOutcomes :
          /\ Apply(set_job_plan(Store, ctl.job_id, plan, clock, io))
          /\ ctl' = [ctl EXCEPT !.pc = "start_step", !.plan = plan, !.i = 0]
    /\ UNCHANGED <<clock, faults, hist>>

test_start_step ==
    /\ ctl.op = "test_job_lifecycle" /\ ctl.pc = "start_step"
    /\ \E io \in IoOutcomes :
          Apply(start_step(Store, ctl.job_id, ctl.i, clock, clock, io))
    /\ ctl' = [ctl EXCEPT !.pc = "complete_step"]
    /\ UNCHANGED <<clock, faults, hist>>

test_complete_step ==
    /\ ctl.op = "test_job_lifecycle" /\ ctl.pc = "complete_step"
    /\ \E result \in PassedResults, status \in {COMPLETED, FAILED}, io \in IoOutcomes :
          /\ Apply(complete_step(Store, ctl.job_id, ctl.i, result, status,
                                 clock, clock, io))
          /\ hist' = [hist EXCEPT !.passed =
                         Append(@, [result |-> result, status |-> status])]
    /\ ctl' = IF ctl.i + 1 < Len(ctl.plan)
              THEN [ctl EXCEPT !.pc = "start_step", !.i = ctl.i + 1]
              ELSE Returned("None")
    /\ UNCHANGED <<clock, faults>>

tick ==
    /\ clock < MaxClock
    /\ clock' = clock + 1
    /\ UNCHANGED <<files, jobs_index, ctl, faults, hist>>

LifecycleNext ==
    \/ \E task \in Tasks : test_create_job(task)
    \/ test_set_job_plan
    \/ test_start_step
    \/ test_complete_step
    \/ tick

LifecycleSpec == Init /\ [][LifecycleNext]_vars

----------------------------------------------------------------------------
(* The store called directly, any method on any job in any order, all     *)
(* within one instant of the clock.  ctl keeps the last call: its name,    *)
(* job id, step index and returned value.                                  *)

Called(name, job_id, step_index, ret) ==
    [Idle EXCEPT !.op = name, !.job_id = job_id, !.i = step_index, !.ret = ret]

StoreCall(name, job_id, step_index, R) ==
    /\ ctl.pc = "idle"
    /\ Apply(R)
    /\ ctl' = Called(name, job_id, step_index, R.ret)
    /\ UNCHANGED <<clock, faults, hist>>

call_create_job(task) ==
    \E job_id \in JobIds \ (DOMAIN jobs_index \cup DOMAIN files), io \in IoOutcomes :
        StoreCall("create_job", job_id, 0, create_job(Store, job_id, task, clock, io))

call_update_job_status(job_id, status) ==
    \E io \in IoOutcomes :
        StoreCall("update_job_status", job_id, 0,
                  update_job_status(Store, job_id, status, clock, io))

call_set_job_plan(job_id, plan) ==
    \E io \in IoOutcomes :
        StoreCall("set_job_plan", job_id, 0,
                  set_job_plan(Store, job_id, plan, clock, io))

call_start_step(job_id, step_index) ==
    \E io \in IoOutcomes :
        StoreCall("start_step", job_id, step_index,
                  start_step(Store, job_id, step_index, clock, clock, io))

call_complete_step(job_id, step_index, result, status) ==
    \E io \in IoOutcomes :
        StoreCall("complete_step", job_id, step_index,
                  complete_step(Store, job_id, step_index, result, status,
                                clock, clock, io))

\* os.remove may raise whatever the storage does for writes
call_delete_job(job_id) ==
    \E io \in BOOLEAN :
        StoreCall("delete_job", job_id, 0, delete_job(Store, job_id, io))

AnyId == JobIds \cup {UnknownId}
AnyIndex == -1..MaxSteps

StoreNext ==
    \/ \E task \in Tasks : call_create_job(task)
    \/ \E job_id \in AnyId, status \in JobStatus : call_update_job_status(job_id, status)
    \/ \E job_id \in AnyId, plan \in Plans : call_set_job_plan(job_id, plan)
    \/ \E job_id \in AnyId, step_index \in AnyIndex : call_start_step(job_id, step_index)
    \/ \E job_id \in AnyId, step_index \in AnyIndex, result \in Results,
          status \in {COMPLETED, FAILED} :
          call_complete_step(job_id, step_index, result, status)
    \/ \E job_id \in AnyId : call_delete_job(job_id)

StoreSpec == Init /\ [][StoreNext]_vars

----------------------------------------------------------------------------
(* list_jobs over an index of several jobs: the jobs were created at any   *)
(* instants and are in any of the statuses the earlier calls left them in; *)
(* list_jobs is then called with any limit and any status filter.          *)

ListIds      == {"j1", "j2", "j3"}
ListStatuses == {PENDING, RUNNING, COMPLETED}

\* the record of a job that create_job wrote and update_job_status changed
stored_job(task, status, created_at) ==
    [task |-> task, status |-> status,
     created_at |-> created_at, updated_at |-> created_at,
     plan |-> <<>>, steps |-> <<>>, memory_context |-> <<>>,
     artifacts |-> <<>>, metadata |-> <<>>]

ListInit ==
    /\ \E ids \in SUBSET ListIds,
          status \in [ListIds -> ListStatuses],
          created_at \in [ListIds -> 0..MaxClock] :
          /\ files = [j \in ids |-> stored_job("task1", status[j], created_at[j])]
          /\ jobs_index = _load_jobs_index(files)
    /\ clock = MaxClock
    /\ ctl = Idle
    /\ faults = FALSE
    /\ hist = NoHist

\* ctl keeps the arguments (limit in i, the filter in job.status) and the
\* ids of the entries returned
call_list_jobs(limit, status) ==
    /\ ctl' = [Idle EXCEPT !.op = "list_jobs", !.i = limit,
                           !.job.status = status,
                           !.ret = list_jobs(Store, limit, status)]
    /\ UNCHANGED <<files, jobs_index, clock, faults, hist>>

ListNext ==
    \E limit \in ListLimits, status \in JobStatus \cup {None} :
        call_list_jobs(limit, status)

ListSpec == ListInit /\ [][ListNext]_vars

----------------------------------------------------------------------------
(* create_job next to jobs that exist already: any of the jobs of ListInit *)
(* are there, and create_job is called until the ids run out.              *)

NewTasks == {"task1", "task2"}

\* uuid4 hands out an id no job has
create_another_job(task) ==
    \E job_id \in ListIds \ (DOMAIN jobs_index \cup DOMAIN files), io \in IoOutcomes :
        StoreCall("create_job", job_id, 0, create_job(Store, job_id, task, clock, io))

CreateNext == \E task \in NewTasks : create_another_job(task)

CreateSpec == ListInit /\ [][CreateNext]_vars

----------------------------------------------------------------------------
(* Probing the store: the calls of StoreSpec, and the remaining mutating   *)
(* operations called with an id that no job has.                           *)

ArtifactNames == {"out1", "out2"}

probe_set_memory_context(job_id) ==
    \E memory_context \in MemoryHits, io \in IoOutcomes :
        StoreCall("set_memory_context", job_id, 0,
                  set_memory_context(Store, job_id, memory_context, clock, io))

probe_add_artifact(job_id) ==
    \E name \in ArtifactNames, io \in IoOutcomes :
        StoreCall("add_artifact", job_id, 0,
                  add_artifact(Store, job_id, "file", name, name, <<>>,
                               clock, clock, io))

probe_set_metadata(job_id) ==
    \E io \in IoOutcomes :
        StoreCall("set_metadata", job_id, 0,
                  set_metadata(Store, job_id, "key", "value", clock, io))

call_abort_job(job_id) ==
    \E io \in IoOutcomes :
        StoreCall("abort_job", job_id, 0, abort_job(Store, job_id, clock, io))

ProbeNext ==
    \/ StoreNext
    \/ probe_set_memory_context(UnknownId)
    \/ probe_add_artifact(UnknownId)
    \/ probe_set_metadata(UnknownId)
    \/ \E job_id \in AnyId : call_abort_job(job_id)

ProbeSpec == Init /\ [][ProbeNext]_vars

----------------------------------------------------------------------------
(* The calls of StoreSpec on a storage that may refuse any write           *)
(* (_save_job catches the exception and returns False).                    *)

FaultInit ==
    /\ files = <<>>
    /\ jobs_index = <<>>
    /\ clock = 0
    /\ ctl = Idle
    /\ faults = TRUE
    /\ hist = NoHist

FaultSpec == FaultInit /\ [][StoreNext]_vars

----------------------------------------------------------------------------
(* Artifacts: while the controller runs its methods, a caller of the store *)
(* records artifacts on the job, at any moment between two store calls.    *)

MaxArtifacts == 2      \* most artifacts recorded on one job

artifact_added(job_id, name) ==
    /\ get_job_found(Store, job_id)
    /\ Len(files[job_id].artifacts) < MaxArtifacts
    /\ \E io \in IoOutcomes :
          Apply(add_artifact(Store, job_id, "file", name, name, <<>>,
                             clock, clock, io))
    /\ UNCHANGED <<clock, ctl, faults, hist>>

ArtifactNext ==
    \/ ControllerNext
    \/ \E job_id \in JobIds, name \in ArtifactNames : artifact_added(job_id, name)

ArtifactSpec == Init /\ [][ArtifactNext]_vars

----------------------------------------------------------------------------
(* execute_task with start_step and complete_step taken apart: each is a   *)
(* read of the job file (get_job), a change of the copy read, and a write  *)
(* of the whole copy (_save_job), with no lock in between.  abort_job and  *)
(* pause_job of another caller may land between the read and the write.    *)
(* execute_task keeps no job of its own across calls; here ctl.job is the  *)
(* job_data the store call in progress has read.                           *)

\* the store as the call in progress saw it: the job as it was read
AsRead ==
    [files |-> [files EXCEPT ![ctl.job_id] =
                   [@ EXCEPT !.status = ctl.job.status,
                             !.plan = ctl.job.plan,
                             !.steps = ctl.job.steps]],
     jobs_index |-> jobs_index]

\* job_data = self.get_job(job_id)
store_call_reads(pc, next_pc) ==
    /\ ctl.op = "execute_task" /\ ctl.pc = pc
    /\ get_job_found(Store, ctl.job_id)
    /\ LET job == get_job(Store, ctl.job_id)
       IN  ctl' = [ctl EXCEPT !.pc = next_pc,
                      !.job = [status |-> job.status, plan |-> job.plan,
                               steps |-> job.steps]]
    /\ UNCHANGED <<files, jobs_index, clock, faults, hist>>

start_step_reads == store_call_reads("start", "start_write")

\* the rest of start_step: the copy is changed and written back
start_step_writes ==
    /\ ctl.op = "execute_task" /\ ctl.pc = "start_write"
    /\ get_job_found(Store, ctl.job_id)
    /\ \E io \in IoOutcomes :
          Apply(start_step(AsRead, ctl.job_id, ctl.i, clock, clock, io))
    /\ ctl' = [ctl EXCEPT !.pc = "run", !.job = NoJob]
    /\ hist' = [hist EXCEPT !.started = Append(@, ctl.i)]
    /\ UNCHANGED <<clock, faults>>

\* the executor has returned or raised; complete_step reads the job
complete_step_reads ==
    /\ store_call_reads("run", "complete_write")
    /\ ctl.job = NoJob

\* the rest of complete_step
complete_step_writes ==
    /\ ctl.op = "execute_task" /\ ctl.pc = "complete_write"
    /\ get_job_found(Store, ctl.job_id)
    /\ \E ok \in BOOLEAN, io \in IoOutcomes :
          /\ \E result \in (IF ok THEN Results ELSE {error_message(e) : e \in Errors}) :
                Apply(complete_step(AsRead, ctl.job_id, ctl.i, result,
                                    IF ok THEN COMPLETED ELSE FAILED,
                                    ExecutorEnd, ExecutorEnd, io))
          /\ ctl' = [AfterStep(ok) EXCEPT !.job = NoJob]
    /\ clock' = ExecutorEnd
    /\ UNCHANGED <<faults, hist>>

RaceNext ==
    \/ \E task \in Tasks : execute_task_create(task)
    \/ execute_task_planning
    \/ execute_task_memory
    \/ execute_task_plan
    \/ execute_task_return
    \/ loop_check
    \/ start_step_reads
    \/ start_step_writes
    \/ complete_step_reads
    \/ complete_step_writes
    \/ \E job_id \in JobIds : admin_abort_job(job_id)
    \/ \E job_id \in JobIds : admin_pause_job(job_id)

RaceSpec == Init /\ [][RaceNext]_vars

----------------------------------------------------------------------------
(* Two callers on one jobs_dir: while execute_task of one process runs, a  *)
(* second process (another CLI command, the UI) calls resume_job or        *)
(* retry_step on the same job.  ctl is the invocation taking its next      *)
(* step and ctl.second the other one; the two take turns at any store call *)
(* or executor call.                                                       *)

InFlight(call) == call.pc \notin {"idle", "done"}

Parked(call) == [op |-> call.op, pc |-> call.pc, job_id |-> call.job_id,
                 i |-> call.i, plan |-> call.plan, job |-> call.job,
                 ret |-> call.ret]

first_execute_task(task) ==
    /\ ~InFlight(ctl.second)
    /\ execute_task_create(task)

\* resume_job called by the second process while the first is in a method
second_resume_job(job_id) ==
    /\ InFlight(ctl) /\ ~InFlight(ctl.second)
    /\ ctl' = [resume_job_entry(job_id) EXCEPT !.second = Parked(ctl)]
    /\ hist' = NoHist
    /\ UNCHANGED <<files, jobs_index, clock, faults>>

\* retry_step called by the second process while the first is in a method
second_retry_step(job_id, step_index) ==
    /\ InFlight(ctl) /\ ~InFlight(ctl.second)
    /\ ctl' = [retry_step_entry(job_id, step_index) EXCEPT !.second = Parked(ctl)]
    /\ hist' = NoHist
    /\ UNCHANGED <<files, jobs_index, clock, faults>>

\* the other process takes the next step
switch ==
    /\ InFlight(ctl.second)
    /\ ctl' = [op |-> ctl.second.op, pc |-> ctl.second.pc,
               job_id |-> ctl.second.job_id, i |-> ctl.second.i,
               plan |-> ctl.second.plan, job |-> ctl.second.job,
               ret |-> ctl.second.ret, second |-> Parked(ctl)]
    /\ UNCHANGED <<files, jobs_index, clock, faults, hist>>

TwoNext ==
    \/ \E task \in Tasks : first_execute_task(task)
    \/ execute_task_planning
    \/ execute_task_memory
    \/ execute_task_plan
    \/ execute_task_return
    \/ \E job_id \in JobIds : second_resume_job(job_id)
    \/ resume_job_running
    \/ \E job_id \in JobIds, step_index \in 0..(MaxSteps - 1) :
          second_retry_step(job_id, step_index)
    \/ loop_check
    \/ loop_start_step
    \/ loop_step_succeeds
    \/ loop_step_fails
    \/ switch

TwoSpec == Init /\ [][TwoNext]_vars

----------------------------------------------------------------------------
(* The controller with another caller of the store that deletes jobs      *)
(* (delete_job) between any two store calls of a method.                   *)

admin_delete_job(job_id) ==
    /\ \E io \in IoOutcomes : Apply(delete_job(Store, job_id, io))
    /\ UNCHANGED <<clock, ctl, faults, hist>>

DeleteNext ==
    \/ ControllerNext
    \/ \E job_id \in JobIds : admin_delete_job(job_id)

DeleteSpec == Init /\ [][DeleteNext]_vars

----------------------------------------------------------------------------
(* Direct calls of the store on a job that carries a memory context,       *)
(* artifacts and metadata: what each call changes and what it leaves.      *)

attach_set_memory_context(job_id) ==
    \E memory_context \in MemoryHits, io \in IoOutcomes :
        StoreCall("set_memory_context", job_id, 0,
                  set_memory_context(Store, job_id, memory_context, clock, io))

\* the artifacts this caller records on a job, in this order
Recorded == <<"out1">>

attach_add_artifact(job_id) ==
    /\ job_id \in DOMAIN files
    /\ Len(files[job_id].artifacts) < Len(Recorded)
    /\ \E io \in IoOutcomes :
          LET name == Recorded[Len(files[job_id].artifacts) + 1]
          IN  StoreCall("add_artifact", job_id, 0,
                        add_artifact(Store, job_id, "file", name, name, <<>>,
                                     clock, clock, io))

attach_set_metadata(job_id) ==
    \E io \in IoOutcomes :
        StoreCall("set_metadata", job_id, 0,
                  set_metadata(Store, job_id, "key", "value", clock, io))

FrameNext ==
    \/ \E task \in Tasks : call_create_job(task)
    \/ \E job_id \in JobIds, plan \in Plans : call_set_job_plan(job_id, plan)
    \/ \E job_id \in JobIds, step_index \in AnyIndex : call_start_step(job_id, step_index)
    \/ \E job_id \in JobIds, step_index \in AnyIndex, result \in Results,
          status \in {COMPLETED, FAILED} :
          call_complete_step(job_id, step_index, result, status)
    \/ \E job_id \in JobIds : call_abort_job(job_id)
    \/ \E job_id \in JobIds : attach_set_memory_context(job_id)
    \/ \E job_id \in JobIds : attach_add_artifact(job_id)
    \/ \E job_id \in JobIds : attach_set_metadata(job_id)

FrameSpec == Init /\ [][FrameNext]_vars

----------------------------------------------------------------------------
(* The store on a running clock: the clock may advance between any two     *)
(* calls, and inside complete_step between its two reads of the clock      *)
(* (`timestamp`, then `completed_time` for the duration).                  *)

\* the calls are made on the first step of the plan
TimedIndex == {0}

timed_complete_step(job_id, step_index, result, status) ==
    /\ ctl.pc = "idle"
    /\ \E now2 \in clock..MaxClock, io \in IoOutcomes :
          LET R == complete_step(Store, job_id, step_index, result, status,
                                 clock, now2, io)
          IN  /\ Apply(R)
              /\ ctl' = Called("complete_step", job_id, step_index, R.ret)
              /\ clock' = now2
    /\ UNCHANGED <<faults, hist>>

ClockNext ==
    \/ \E task \in Tasks : call_create_job(task)
    \/ \E job_id \in JobIds, plan \in Plans : call_set_job_plan(job_id, plan)
    \/ \E job_id \in JobIds, step_index \in TimedIndex : call_start_step(job_id, step_index)
    \/ \E job_id \in JobIds, step_index \in TimedIndex, result \in Results,
          status \in {COMPLETED, FAILED} :
          timed_complete_step(job_id, step_index, result, status)
    \/ tick

ClockSpec == Init /\ [][ClockNext]_vars

----------------------------------------------------------------------------
(* resume_job left alone: administrative calls are made between the        *)
(* controller's methods and while execute_task and retry_step run, but not *)
(* while resume_job runs; no crash, and a method that has begun keeps      *)
(* running.                                                                *)

\* resume_job has passed its entry checks and has not returned yet
Resuming == ctl.op = "resume_job" /\ ctl.pc \notin {"idle", "done"}

ResumeNext ==
    \/ ControllerNext
    \/ ~Resuming /\ \E job_id \in JobIds : admin_abort_job(job_id)
    \/ ~Resuming /\ \E job_id \in JobIds : admin_pause_job(job_id)
    \/ ~Resuming /\ \E job_id \in JobIds : admin_resume_job(job_id)

ResumeSpec == Init /\ [][ResumeNext]_vars /\ WF_vars(ControllerNext)

----------------------------------------------------------------------------
(* Properties *)

\* the persisted record of the job the controller is working on
CtlJob == files[ctl.job_id]

\* a step as set_job_plan creates it
FreshStep(p, text) ==
    [index |-> p - 1, description |-> text, status |-> PENDING, result |-> None,
     started_at |-> NoTime, completed_at |-> NoTime, duration |-> NoTime]

\* the controller's complete_step call of this step returns True
CompleteStepCalled ==
    /\ ctl.pc = "run"
    /\ get_job_found(Store, ctl.job_id)
    /\ ctl.i < Len(CtlJob.steps)
    /\ loop_step_succeeds \/ loop_step_fails

\* C1 as claimed: right after a complete_step that returns True the job's
\* status is completed or failed exactly when every step is completed or
\* failed, and then it is failed exactly when some step is failed.
C1_StatusIffAllStepsTerminal ==
    [][CompleteStepCalled =>
          LET job == files'[ctl.job_id]
              all == \A p \in 1..Len(job.steps) :
                        job.steps[p].status \in {COMPLETED, FAILED}
              any == \E p \in 1..Len(job.steps) : job.steps[p].status = FAILED
          IN  /\ job.status \in {COMPLETED, FAILED} <=> all
              /\ job.status \in {COMPLETED, FAILED} => (job.status = FAILED <=> any)]_vars

\* C1 as amended: right after a complete_step that returns True, if every step
\* is completed or failed the job's status is failed when some step is failed
\* and completed otherwise; if some step is not, the job's status is what it
\* was before the call.
C1_StatusRecomputedWhenAllTerminal ==
    [][CompleteStepCalled =>
          LET job == files'[ctl.job_id]
              all == \A p \in 1..Len(job.steps) :
                        job.steps[p].status \in {COMPLETED, FAILED}
              any == \E p \in 1..Len(job.steps) : job.steps[p].status = FAILED
          IN  /\ all /\ any => job.status = FAILED
              /\ all /\ ~any => job.status = COMPLETED
              /\ ~all => job.status = files[ctl.job_id].status]_vars

\* a step has been completed in a job that stays completed while another step
\* is still running
C1_Witness ==
    /\ ctl.op = "retry_step" /\ ctl.pc = "done" /\ ctl.job.steps # <<>>
    /\ CtlJob.status = COMPLETED
    /\ CtlJob.steps[ctl.i + 1].status \in {COMPLETED, FAILED}
    /\ \E p \in 1..Len(CtlJob.steps) : CtlJob.steps[p].status = RUNNING

\* C2: in every reachable state a job with at least one step whose steps are
\* all completed has status completed, and a job whose steps are all terminal
\* with at least one failed has status failed.
C2_StatusFollowsSteps ==
    \A j \in DOMAIN files :
        LET steps == files[j].steps
        IN  /\ (Len(steps) >= 1 /\ \A p \in 1..Len(steps) : steps[p].status = COMPLETED)
                  => files[j].status = COMPLETED
            /\ (/\ \A p \in 1..Len(steps) : steps[p].status \in {COMPLETED, FAILED}
                /\ \E p \in 1..Len(steps) : steps[p].status = FAILED)
                  => files[j].status = FAILED

C4_TerminalStatusIsFinal ==
    [][\A j \in DOMAIN files :
          files[j].status \in {COMPLETED, FAILED, ABORTED}
             => (j \in DOMAIN files' /\ files'[j].status = files[j].status)]_vars

\* C5: when abort_job succeeds while a loop has step i at the executor, step i
\* is completed, no later step is started, and once the loop has returned the
\* job's status is still aborted.
C5_AbortDuringStepSticks ==
    (InLoop /\ hist.admin = "abort_run") =>
        /\ ctl.pc \in {"run", "check", "done"}
        /\ ctl.pc = "done" =>
              /\ CtlJob.steps[hist.started[Len(hist.started)] + 1].status \in {COMPLETED, FAILED}
              /\ CtlJob.status = ABORTED

\* C6: when the job is paused or aborted after complete_step of step i and
\* before the loop's check for step i+1, the loop stops at that check, it has
\* started no step beyond i, and every step beyond i is as the loop found it:
\* a pending step stays pending with no result and no timestamps (under
\* execute_task every step beyond i is one).
C6_PauseBetweenStepsHalts ==
    (InLoop /\ hist.admin \in {"pause_check", "abort_check"}) =>
        /\ ctl.pc \in {"check", "done"}
        /\ ctl.pc = "done" => hist.stopped = ctl.i
        /\ \A x \in 1..Len(hist.started) : hist.started[x] < ctl.i
        /\ Len(CtlJob.steps) = LoopLen
        /\ \A p \in (ctl.i + 1)..LoopLen :
              /\ CtlJob.steps[p] = IF ctl.op = "execute_task"
                                   THEN FreshStep(p, ctl.plan[p])
                                   ELSE ctl.job.steps[p]
              /\ (ctl.op = "resume_job" /\ ctl.job.steps[p].status = PENDING)
                    => CtlJob.steps[p] = FreshStep(p, ctl.job.plan[p])

\* a loop paused between two steps has returned, leaving a pending step
C6_Witness ==
    /\ InLoop /\ ctl.pc = "done" /\ hist.admin = "pause_check"
    /\ hist.stopped = ctl.i /\ hist.stopped >= 1
    /\ CtlJob.steps[ctl.i + 1].status = PENDING
    /\ CtlJob.steps[ctl.i].status \in {COMPLETED, FAILED}

\* C7: resume_job on an unknown id, or on a job that is neither paused nor
\* running, returns False at once (no step is executed) and leaves every
\* persisted record and the index unchanged.
C7_ResumeRefusedChangesNothing ==
    [][\A job_id \in JobIds \cup {UnknownId} :
          (/\ resume_job_read(job_id)
           /\ \/ job_id \notin DOMAIN jobs_index
              \/ job_id \notin DOMAIN files
              \/ files[job_id].status \in
                    {PENDING, PLANNING, COMPLETED, FAILED, ABORTED})
             => /\ ctl'.pc = "done" /\ ctl'.ret = "False"
                /\ hist'.started = <<>>
                /\ files' = files /\ jobs_index' = jobs_index]_vars

\* resume_job has been refused on a completed job
C7_Witness ==
    /\ ctl.op = "resume_job" /\ ctl.pc = "done" /\ ctl.ret = "False"
    /\ ~hist.scanned
    /\ ctl.job_id \in DOMAIN files /\ CtlJob.status = COMPLETED

\* the lowest index of a pending or running step, or -1
LowestIncomplete(steps) ==
    LET open == {p - 1 : p \in {q \in 1..Len(steps) :
                                  steps[q].status \in {PENDING, RUNNING}}}
    IN  IF open = {} THEN -1 ELSE CHOOSE m \in open : \A n \in open : m <= n

\* C8: resume_job on a paused or running job starts at the lowest index k whose
\* step it read as pending or running (a running step is started again), it
\* starts no step below k, and every step below k stays as it read it.
C8_ResumeStartsAtFirstIncomplete ==
    (ctl.op = "resume_job" /\ hist.scanned) =>
        LET k == LowestIncomplete(ctl.job.steps)
        IN  /\ hist.first = k
            /\ k = -1 => hist.started = <<>>
            /\ hist.started # <<>> => hist.started[1] = k
            /\ ctl.pc \in {"start", "run"} /\ hist.started = <<>> => ctl.i = k
            /\ \A x \in 1..Len(hist.started) : hist.started[x] >= k
            /\ Len(CtlJob.steps) = Len(ctl.job.steps)
            /\ \A p \in 1..(IF k = -1 THEN Len(ctl.job.steps) ELSE k) :
                  CtlJob.steps[p] = ctl.job.steps[p]

\* resume_job has started again a step it found running, after a completed one
C8_Witness ==
    /\ ctl.op = "resume_job" /\ ctl.pc = "run" /\ ctl.i = 1
    /\ hist.started = <<1>>
    /\ ctl.job.steps[1].status = COMPLETED
    /\ ctl.job.steps[2].status = RUNNING

\* C9: resume_job on a paused or running job with no pending or running step
\* executes no step and does not return the failure result.
C9_NothingToDoIsNotFailure ==
    (ctl.op = "resume_job" /\ ctl.pc = "done" /\ hist.scanned /\ hist.first = -1)
       => (hist.started = <<>> /\ ctl.ret # "False")

\* C10: retry_step on step i leaves the plan, the number of steps and every
\* other step as they were when it read the job, and when it returns step i
\* carries the status, result, completion time and duration of the new run.
C10_RetryTouchesOneStep ==
    (ctl.op = "retry_step" /\ ctl.job.steps # <<>>) =>
        LET p == ctl.i + 1
        IN  /\ CtlJob.plan = ctl.job.plan
            /\ Len(CtlJob.steps) = Len(ctl.job.steps)
            /\ \A q \in 1..Len(CtlJob.steps) :
                  q # p => CtlJob.steps[q] = ctl.job.steps[q]
            /\ ctl.pc = "done" =>
                  /\ ctl.ret = "True" =>
                        /\ CtlJob.steps[p].status = COMPLETED
                        /\ CtlJob.steps[p].result \in Results
                  /\ ctl.ret = "False" =>
                        /\ CtlJob.steps[p].status = FAILED
                        /\ CtlJob.steps[p].result \in {error_message(e) : e \in Errors}
                  /\ CtlJob.steps[p].completed_at = clock
                  /\ CtlJob.steps[p].started_at # NoTime
                  /\ CtlJob.steps[p].duration =
                        CtlJob.steps[p].completed_at - CtlJob.steps[p].started_at

\* a completed step with a sibling has been retried and has failed
C10_Witness ==
    /\ ctl.op = "retry_step" /\ ctl.pc = "done"
    /\ Len(ctl.job.steps) >= 2
    /\ ctl.job.steps[ctl.i + 1].status = COMPLETED
    /\ CtlJob.steps[ctl.i + 1].status = FAILED

\* C11: retry_step returns False exactly when the job is not found or the
\* index is out of range, and then it starts no step; on an existing job and
\* an index in range it starts and completes that step and returns True, also
\* when the executor raised (the step is then failed).
C11_RetryFailsOnlyWhenRefused ==
    (ctl.op = "retry_step" /\ ctl.pc = "done") =>
        LET refused == \/ ~get_job_found(Store, ctl.job_id)
                       \/ ~valid_index(ctl.i, ctl.job.steps)
        IN  /\ ctl.ret = "False" <=> refused
            /\ refused => hist.started = <<>>
            /\ ~refused =>
                  /\ ctl.ret = "True"
                  /\ hist.started = <<ctl.i>>
                  /\ CtlJob.steps[ctl.i + 1].status \in {COMPLETED, FAILED}

\* C12: when the executor raises on step i of an execute_task or resume_job
\* loop, the step is recorded as failed with the error text as its result and
\* the method goes on: to the check before step i+1, or to its normal return
\* when i was the last step; and that check lets step i+1 start unless the job
\* is paused or aborted.
C12_FailedStepDoesNotStopLoop ==
    [][/\ (InLoop /\ ctl.pc = "run" /\ loop_step_fails) =>
             /\ files'[ctl.job_id].steps[ctl.i + 1].status = FAILED
             /\ files'[ctl.job_id].steps[ctl.i + 1].result \in
                    {error_message(e) : e \in Errors}
             /\ IF ctl.i + 1 < LoopLen
                THEN ctl'.pc = "check" /\ ctl'.i = ctl.i + 1
                ELSE ctl'.pc = "done" /\ ctl'.ret = LoopReturn
       /\ (InLoop /\ ctl.pc = "check" /\ loop_check
              /\ CtlJob.status \notin {PAUSED, ABORTED}) =>
             ctl'.pc = "start" /\ ctl'.i = ctl.i]_vars

\* a loop has started step 1 after step 0 failed
C12_Witness ==
    /\ InLoop /\ ctl.pc = "run"
    /\ hist.started = <<0, 1>>
    /\ CtlJob.steps[1].status = FAILED
    /\ CtlJob.steps[2].status = RUNNING

\* C13: within one execute_task or resume_job run the steps are started in
\* ascending index order, none skipped and none repeated, and a step after the
\* first is started only when the persisted record shows the step before it
\* completed or failed.
C13_StepsStartInOrder ==
    /\ [](InLoop => \A x \in 1..(Len(hist.started) - 1) :
                        hist.started[x + 1] = hist.started[x] + 1)
    /\ [][(InLoop /\ ctl.pc = "start" /\ loop_start_step /\ hist.started # <<>>) =>
             /\ ctl.i = hist.started[Len(hist.started)] + 1
             /\ CtlJob.steps[ctl.i].status \in {COMPLETED, FAILED}
             /\ files'[ctl.job_id].steps[ctl.i].status \in {COMPLETED, FAILED}]_vars

\* a loop has run step 0 to its end and has then started step 1
C13_Witness ==
    /\ InLoop /\ ctl.pc = "run"
    /\ hist.started = <<0, 1>>
    /\ CtlJob.steps[1].status = COMPLETED
    /\ CtlJob.steps[1].completed_at # NoTime

\* C14: with a plan of at least one step and no pause, abort, delete or crash,
\* execute_task returns; when it has returned every step is completed or
\* failed, a step is failed exactly when its executor call raised, and the job
\* is failed when some step is failed and completed otherwise.
C14_ExecuteTaskTerminates ==
    /\ [](ctl.op = "execute_task" /\ ctl.pc = "done" /\ ctl.plan # <<>> =>
            /\ ctl.ret = ctl.job_id
            /\ Len(CtlJob.steps) = Len(ctl.plan)
            /\ \A p \in 1..Len(CtlJob.steps) :
                  \/ CtlJob.steps[p].status = COMPLETED /\ CtlJob.steps[p].result \in Results
                  \/ /\ CtlJob.steps[p].status = FAILED
                     /\ CtlJob.steps[p].result \in {error_message(e) : e \in Errors}
            /\ CtlJob.status =
                  IF \E p \in 1..Len(CtlJob.steps) : CtlJob.steps[p].status = FAILED
                  THEN FAILED ELSE COMPLETED)
    /\ (ctl.op = "execute_task" /\ ctl.pc = "check" /\ ctl.i = 0)
          ~> (ctl.op = "execute_task" /\ ctl.pc = "done")

\* execute_task has returned from a two-step plan whose second step failed
C14_Witness ==
    /\ ctl.op = "execute_task" /\ ctl.pc = "done" /\ Len(ctl.plan) = 2
    /\ CtlJob.steps[1].status = COMPLETED
    /\ CtlJob.steps[2].status = FAILED
    /\ CtlJob.status = FAILED

\* C15: when the planner returns an empty plan, execute_task does not apply
\* set_job_plan: when it returns the job is still planning, with an empty plan
\* and no steps, and what it returns is not the job id of a normal run.
C15_EmptyPlanIsReported ==
    (ctl.op = "execute_task" /\ ctl.pc \in {"return", "done"} /\ ctl.plan = <<>>) =>
        /\ CtlJob.status = PLANNING
        /\ CtlJob.plan = <<>> /\ CtlJob.steps = <<>>
        /\ jobs_index[ctl.job_id].status = PLANNING
        /\ ctl.pc = "done" => ctl.ret # ctl.job_id

\* a new process has started after execute_task died with its plan persisted
AfterCrash == ctl.pc = "idle" /\ files # <<>>

\* every job has all its steps completed or failed and is completed or failed
AllFinished ==
    \A j \in DOMAIN files :
        /\ files[j].status \in {COMPLETED, FAILED}
        /\ \A p \in 1..Len(files[j].steps) :
              files[j].steps[p].status \in {COMPLETED, FAILED}

\* C16: after execute_task died at any point once set_job_plan was persisted,
\* a new store over the same jobs_dir and resume_job (no further crash, pause
\* or abort) eventually leave every step completed or failed and the job
\* completed or failed, and resume_job starts no step that was completed or
\* failed when it read the job.
C16_ResumeAfterCrashFinishes ==
    /\ [](ctl.op = "resume_job" =>
            \A x \in 1..Len(hist.started) :
                ctl.job.steps[hist.started[x] + 1].status \notin {COMPLETED, FAILED})
    /\ AfterCrash ~> AllFinished

\* the index and description of every step, in order
StepLayout(job) ==
    [p \in 1..Len(job.steps) |-> <<job.steps[p].index, job.steps[p].description>>]

\* C17: every job has as many steps as its plan has entries, step i carries
\* index i and the description plan[i]; and only set_job_plan changes a job's
\* plan, its number of steps or a step's index or description.
C17_StepsMirrorPlan ==
    /\ [](\A j \in DOMAIN files :
            /\ Len(files[j].steps) = Len(files[j].plan)
            /\ \A p \in 1..Len(files[j].steps) :
                  /\ files[j].steps[p].description = files[j].plan[p]
                  /\ files[j].steps[p].index = p - 1)
    /\ [][\A j \in DOMAIN files \cap DOMAIN files' :
            (files'[j].plan # files[j].plan \/ StepLayout(files'[j]) # StepLayout(files[j]))
               => ctl'.op = "set_job_plan" /\ ctl'.job_id = j /\ ctl'.ret = "True"]_vars

\* a step of a two-step job has just been completed
C17_Witness ==
    /\ ctl.op = "complete_step" /\ ctl.ret = "True" /\ ctl.i = 1
    /\ Len(CtlJob.plan) = 2
    /\ CtlJob.steps[2].status = COMPLETED

\* C18: in every reachable state a step that is completed or failed has a
\* result, a completion time and a duration, and a step that is pending or
\* running (also one started again by retry_step or resume_job) has none of
\* the three.
C18_ResultFieldsFollowStatus ==
    \A j \in DOMAIN files :
        \A p \in 1..Len(files[j].steps) :
            LET step == files[j].steps[p]
            IN  IF step.status \in {COMPLETED, FAILED}
                THEN /\ step.result # None
                     /\ step.completed_at # NoTime
                     /\ step.duration # NoTime
                ELSE /\ step.result = None
                     /\ step.completed_at = NoTime
                     /\ step.duration = NoTime

\* C19: a set_job_plan call that succeeds, on a job in any status and with any
\* earlier plan and step results, leaves the job with exactly the plan passed
\* in, one pending step per plan entry with no result and no times, and the
\* status running in the job file and in the index.
C19_SetPlanReplacesEverything ==
    [][\A j \in JobIds, plan \in Plans :
         (call_set_job_plan(j, plan) /\ ctl'.ret = "True")
            => /\ files'[j].plan = plan
               /\ files'[j].steps = [p \in 1..Len(plan) |-> FreshStep(p, plan[p])]
               /\ files'[j].status = RUNNING
               /\ jobs_index'[j].status = RUNNING]_vars

C19_Witness ==
    /\ ctl.op = "set_job_plan" /\ ctl.ret = "True"
    /\ Len(CtlJob.plan) = MaxSteps
    /\ CtlJob.steps = [p \in 1..MaxSteps |-> FreshStep(p, CtlJob.plan[p])]
    /\ CtlJob.status = RUNNING

Listed(S, job_id) ==
    \E limit \in ListLimits, status \in JobStatus \cup {None} :
        LET jobs == list_jobs(S, limit, status)
        IN  \E p \in 1..Len(jobs) : jobs[p] = job_id

\* C20: after a delete_job call that returned True the job has no file and no
\* index entry, get_job finds nothing and no list_jobs call returns it; in
\* every reachable state a job has a file exactly when it has an index entry;
\* and delete_job of an id that is not in the index returns False and changes
\* neither the files nor the index.
C20_DeleteRemovesFileAndEntry ==
    /\ [](/\ DOMAIN files = DOMAIN jobs_index
          /\ (ctl.op = "delete_job" /\ ctl.ret = "True")
                => /\ ctl.job_id \notin DOMAIN files
                   /\ ctl.job_id \notin DOMAIN jobs_index
                   /\ ~get_job_found(Store, ctl.job_id)
                   /\ ~Listed(Store, ctl.job_id))
    /\ [][(ctl'.op = "delete_job" /\ ctl'.job_id \notin DOMAIN jobs_index)
            => /\ ctl'.ret = "False"
               /\ files' = files
               /\ jobs_index' = jobs_index]_vars

C20_Witness ==
    /\ ctl.op = "delete_job" /\ ctl.ret = "True"
    /\ ctl.job_id \in JobIds
    /\ ctl.job_id \notin DOMAIN files \cup DOMAIN jobs_index

\* the index entries list_jobs has to choose from under the filter it was given
Matching == {j \in DOMAIN jobs_index :
                ctl.job.status = None \/ jobs_index[j].status = ctl.job.status}

\* jobs holds n of the matching entries, without repeats, newest first, and no
\* matching entry left out is newer than one of them
NewestMatching(jobs, n) ==
    /\ Len(jobs) = n
    /\ \A p \in 1..Len(jobs) : jobs[p] \in Matching
    /\ \A p, q \in 1..Len(jobs) : p # q => jobs[p] # jobs[q]
    /\ \A p, q \in 1..Len(jobs) :
          p < q => jobs_index[jobs[p]].created_at >= jobs_index[jobs[q]].created_at
    /\ \A j \in Matching \ {jobs[p] : p \in 1..Len(jobs)} :
          \A p \in 1..Len(jobs) :
             jobs_index[jobs[p]].created_at >= jobs_index[j].created_at

C22_CreateAddsOnePendingJob ==
    [][\A task \in NewTasks :
         create_another_job(task) =>
            LET job_id == ctl'.ret
                S      == [files |-> files', jobs_index |-> jobs_index']
            IN  /\ job_id \notin DOMAIN files \cup DOMAIN jobs_index
                /\ get_job_found(S, job_id)
                /\ get_job(S, job_id).task = task
                /\ get_job(S, job_id).status = PENDING
                /\ get_job(S, job_id).plan = <<>>
                /\ get_job(S, job_id).steps = <<>>
                /\ get_job(S, job_id).memory_context = <<>>
                /\ get_job(S, job_id).artifacts = <<>>
                /\ get_job(S, job_id).metadata = <<>>
                /\ get_job(S, job_id).created_at = get_job(S, job_id).updated_at
                /\ DOMAIN files' = DOMAIN files \cup {job_id}
                /\ DOMAIN jobs_index' = DOMAIN jobs_index \cup {job_id}
                /\ \A j \in DOMAIN files : files'[j] = files[j]
                /\ \A j \in DOMAIN jobs_index : jobs_index'[j] = jobs_index[j]]_vars

\* a job created next to two others, one of them not pending
C22_Witness ==
    /\ ctl.op = "create_job" /\ ctl.ret \in DOMAIN files
    /\ Cardinality(DOMAIN files) = 3
    /\ files[ctl.ret].task = "task2" /\ files[ctl.ret].status = PENDING
    /\ \E j \in DOMAIN files \ {ctl.ret} : files[j].status = COMPLETED

Mutators == {"update_job_status", "set_job_plan", "start_step", "complete_step",
             "set_memory_context", "add_artifact", "set_metadata", "abort_job"}

\* the call just made named a job that is not in the index, or was a
\* start_step or complete_step with an index below 0 or not below the number
\* of steps of the job
Probed ==
    /\ ctl'.op \in Mutators
    /\ \/ ctl'.job_id \notin DOMAIN jobs_index
       \/ /\ ctl'.op \in {"start_step", "complete_step"}
          /\ ctl'.job_id \in DOMAIN files
          /\ ctl'.i < 0 \/ ctl'.i >= Len(files[ctl'.job_id].steps)

\* C23: a mutating store call with an unknown job id, and a start_step or
\* complete_step call with an index below 0 or not below the number of steps,
\* returns False without raising and leaves every job file and the index as
\* they were.
C23_ProbeReturnsFalseUnchanged ==
    [][Probed => /\ ctl'.ret = "False"
                 /\ files' = files
                 /\ jobs_index' = jobs_index]_vars

\* written is what the call returns and leaves when its write succeeds,
\* refused the same with the write refused: the call reaches its write (it
\* returns True, or the new id) and this step is that call with the write
\* refused
WriteFails(name, job_id, step_index, written, refused) ==
    /\ name = "create_job" \/ written.ret = "True"
    /\ StoreCall(name, job_id, step_index, refused)

FailedWrite ==
    \/ \E task \in Tasks, job_id \in JobIds \ (DOMAIN jobs_index \cup DOMAIN files) :
          WriteFails("create_job", job_id, 0,
                     create_job(Store, job_id, task, clock, TRUE),
                     create_job(Store, job_id, task, clock, FALSE))
    \/ \E job_id \in AnyId, status \in JobStatus :
          WriteFails("update_job_status", job_id, 0,
                     update_job_status(Store, job_id, status, clock, TRUE),
                     update_job_status(Store, job_id, status, clock, FALSE))
    \/ \E job_id \in AnyId, plan \in Plans :
          WriteFails("set_job_plan", job_id, 0,
                     set_job_plan(Store, job_id, plan, clock, TRUE),
                     set_job_plan(Store, job_id, plan, clock, FALSE))
    \/ \E job_id \in AnyId, step_index \in AnyIndex :
          WriteFails("start_step", job_id, step_index,
                     start_step(Store, job_id, step_index, clock, clock, TRUE),
                     start_step(Store, job_id, step_index, clock, clock, FALSE))
    \/ \E job_id \in AnyId, step_index \in AnyIndex, result \in Results,
          status \in {COMPLETED, FAILED} :
          WriteFails("complete_step", job_id, step_index,
                     complete_step(Store, job_id, step_index, result, status,
                                   clock, clock, TRUE),
                     complete_step(Store, job_id, step_index, result, status,
                                   clock, clock, FALSE))

\* C24: when the write of the job file fails in create_job, update_job_status,
\* set_job_plan, start_step or complete_step, the call does not return success
\* (True, or a job id) and the job files and the index, entry by entry, are
\* what they were before the call.
C24_FailedWriteChangesNothing ==
    [][FailedWrite => /\ ctl'.ret \notin {"True"} \cup JobIds
                      /\ files' = files
                      /\ jobs_index' = jobs_index]_vars

IsPrefix(s, t) == Len(s) <= Len(t) /\ SubSeq(t, 1, Len(s)) = s

\* C25: every step of the store or the controller (set_job_plan, start_step,
\* complete_step, and so execute_task, retry_step and resume_job) leaves the
\* artifacts a job had as a prefix of the artifacts it has afterwards, and
\* add_artifact appends exactly one artifact, the one passed in, at the end.
C25_ArtifactsAppendOnly ==
    [][/\ \A j \in DOMAIN files \cap DOMAIN files' :
             IsPrefix(files[j].artifacts, files'[j].artifacts)
       /\ \A j \in JobIds, name \in ArtifactNames :
             artifact_added(j, name) =>
                /\ Len(files'[j].artifacts) = Len(files[j].artifacts) + 1
                /\ files'[j].artifacts[Len(files'[j].artifacts)].name = name]_vars

\* two different artifacts, the first recorded before the first step ended,
\* still in place and in order after a retry_step that ran
C25_Witness ==
    /\ ctl.op = "retry_step" /\ ctl.pc = "done" /\ ctl.ret = "True"
    /\ Len(CtlJob.artifacts) = 2
    /\ CtlJob.artifacts[1].name = "out2" /\ CtlJob.artifacts[2].name = "out1"
    /\ CtlJob.artifacts[1].created_at = 0
    /\ CtlJob.artifacts[2].created_at = 1

\* C26: with abort_job and pause_job landing anywhere between the reads and
\* writes of the loop's store calls, the write of start_step or complete_step
\* never replaces the status paused or aborted that a successful pause_job or
\* abort_job has stored, so the loop finds it at its next check and stops.
C26_WriteBackKeepsPauseAndAbort ==
    [][(/\ start_step_writes \/ complete_step_writes
        /\ CtlJob.status \in {PAUSED, ABORTED})
           => files'[ctl.job_id].status = CtlJob.status]_vars

\* C27: a resume_job or retry_step called while execute_task (or resume_job)
\* is still running the same job starts no second execution: never are two
\* invocations at the executor with a step of the same job at once.
C27_OneExecutionPathPerJob ==
    ~(/\ ctl.pc = "run" /\ ctl.second.pc = "run"
      /\ ctl.job_id = ctl.second.job_id)

\* what a method that ended with an uncaught exception leaves as its result
Raised == {"TypeError", "IndexError"}

\* C28: execute_task, resume_job and retry_step never end with an uncaught
\* exception: a failing executor, and a job deleted by another caller between
\* two steps of the loop, end in step or job state or in a returned value.
C28_NoExceptionEscapes ==
    ctl.pc = "done" => ctl.ret \notin Raised

\* C29: a step of execute_task, resume_job or retry_step changes a job's status
\* only to planning (execute_task's update_job_status), to running
\* (resume_job's update_job_status, or set_job_plan), or, inside complete_step
\* once every step is completed or failed, to failed when a step failed and
\* to completed otherwise; the controller never writes aborted or paused, and
\* never completed or failed by a call of its own.
C29_ControllerWritesNoTerminalStatus ==
    [][ctl' # ctl =>
         \A j \in DOMAIN files \cap DOMAIN files' :
            files'[j].status # files[j].status =>
               \/ /\ files'[j].status = PLANNING
                  /\ ctl.op = "execute_task" /\ ctl.pc = "planning"
               \/ /\ files'[j].status = RUNNING
                  /\ \/ ctl.op = "resume_job" /\ ctl.pc = "running"
                     \/ ctl.op = "execute_task" /\ ctl.pc = "plan"
               \/ /\ files'[j].status \in {COMPLETED, FAILED}
                  /\ ctl.pc = "run"
                  /\ all_completed(files'[j].steps)
                  /\ files'[j].status = IF any_failed(files'[j].steps)
                                        THEN FAILED ELSE COMPLETED]_vars

\* resume_job has run a paused job to its end and the job is failed
C29_Witness ==
    /\ ctl.op = "resume_job" /\ ctl.pc = "done" /\ ctl.ret = "True"
    /\ ctl.job.status = PAUSED
    /\ CtlJob.status = FAILED
    /\ Len(hist.started) >= 1

\* C30: a start_step call that returns True changes, in the job's file, only
\* the status (to running) and started_at of the step the index names and the
\* job's updated_at, and in the index only the entry's updated_at: the job's
\* status, plan, artifacts, metadata, memory context and every other step are
\* as before, whatever the statuses of the job and of its steps.
C30_StartStepFrame ==
    [][(ctl'.op = "start_step" /\ ctl'.ret = "True") =>
         LET j   == ctl'.job_id
             p   == ListPos(Len(files[j].steps), ctl'.i)
         IN  /\ files'[j].steps[p].status = RUNNING
             /\ files'[j] = [files[j] EXCEPT
                               !.steps[p].status = RUNNING,
                               !.steps[p].started_at = files'[j].steps[p].started_at,
                               !.updated_at = files'[j].updated_at]
             /\ jobs_index'[j] = [jobs_index[j] EXCEPT
                                    !.updated_at = jobs_index'[j].updated_at]
             /\ DOMAIN files' = DOMAIN files
             /\ DOMAIN jobs_index' = DOMAIN jobs_index]_vars

\* step 0 of an aborted job started again after it was completed, next to a
\* failed step, on a job that has a memory context, an artifact and metadata
C30_Witness ==
    /\ ctl.op = "start_step" /\ ctl.ret = "True" /\ ctl.i = 0
    /\ CtlJob.status = ABORTED /\ jobs_index[ctl.job_id].status = ABORTED
    /\ Len(CtlJob.steps) = 2
    /\ CtlJob.steps[1].status = RUNNING /\ CtlJob.steps[1].result # None
    /\ CtlJob.steps[2].status = FAILED
    /\ CtlJob.artifacts # <<>> /\ CtlJob.memory_context # <<>>
    /\ DOMAIN CtlJob.metadata # {}

\* C31: a complete_step call that returns True changes, in the job's file,
\* only the status, result, completed_at and duration of the step the index
\* names, the job's updated_at and possibly the job's status; the plan, the
\* artifacts, the metadata, the memory context and every other step are as
\* before, so a failed step discards no other step's result.
C31_CompleteStepFrame ==
    [][(ctl'.op = "complete_step" /\ ctl'.ret = "True") =>
         LET j   == ctl'.job_id
             p   == ListPos(Len(files[j].steps), ctl'.i)
         IN  /\ files'[j] = [files[j] EXCEPT
                               !.steps[p].status = files'[j].steps[p].status,
                               !.steps[p].result = files'[j].steps[p].result,
                               !.steps[p].completed_at = files'[j].steps[p].completed_at,
                               !.steps[p].duration = files'[j].steps[p].duration,
                               !.status = files'[j].status,
                               !.updated_at = files'[j].updated_at]
             /\ DOMAIN files' = DOMAIN files
             /\ DOMAIN jobs_index' = DOMAIN jobs_index]_vars

\* step 1 of two has just failed; step 0 still has its result and times, and
\* the job its memory context, artifact and metadata
C31_Witness ==
    /\ ctl.op = "complete_step" /\ ctl.ret = "True" /\ ctl.i = 1
    /\ Len(CtlJob.steps) = 2
    /\ CtlJob.steps[2].status = FAILED
    /\ CtlJob.steps[1].status = COMPLETED /\ CtlJob.steps[1].result # None
    /\ CtlJob.steps[1].completed_at # NoTime
    /\ CtlJob.status = FAILED
    /\ CtlJob.artifacts # <<>> /\ CtlJob.memory_context # <<>>
    /\ DOMAIN CtlJob.metadata # {}

\* the step a complete_step call on (job_id, step_index) has just written
Completed(job_id, step_index) == files'[job_id].steps[step_index + 1]

\* C32: after a complete_step call that returns True the step has
\* the status and the result passed in and a completed_at; its duration is
\* completed_at minus started_at, and not negative, when the step had a
\* started_at, and there is none when the step was never started.
C32_DurationIsCompletedMinusStarted ==
    [][\A job_id \in JobIds, step_index \in TimedIndex, result \in Results,
          status \in {COMPLETED, FAILED} :
          (timed_complete_step(job_id, step_index, result, status) /\ ctl'.ret = "True")
             => LET step == Completed(job_id, step_index)
                IN  /\ step.status = status /\ step.result = result
                    /\ step.completed_at # NoTime
                    /\ IF step.started_at # NoTime
                       THEN /\ step.duration >= 0
                            /\ step.duration = step.completed_at - step.started_at
                       ELSE step.duration = NoTime]_vars

\* C33 as claimed: every step that is Running, Completed or Failed has a
\* started_at.
C33_EveryStartedStepHasStartedAt ==
    \A job_id \in DOMAIN files :
       \A p \in DOMAIN files[job_id].steps :
          files[job_id].steps[p].status # PENDING
             => files[job_id].steps[p].started_at # NoTime

\* C33 as the code has it: a step has a started_at exactly when start_step
\* has returned True on it since the last set_job_plan: only such a call
\* sets one and only set_job_plan takes one away. A step with a started_at
\* is not Pending and a Running step has one, while a step completed without
\* having been started is Completed or Failed with no started_at.
C33_StartedAtOnlyFromStartStep ==
    /\ [](\A job_id \in DOMAIN files :
            \A p \in DOMAIN files[job_id].steps :
               LET step == files[job_id].steps[p]
               IN  /\ step.started_at # NoTime => step.status # PENDING
                   /\ step.status = RUNNING => step.started_at # NoTime)
    /\ [][\A job_id \in DOMAIN files \cap DOMAIN files' :
            \A p \in DOMAIN files[job_id].steps \cap DOMAIN files'[job_id].steps :
               LET old == files[job_id].steps[p].started_at
                   new == files'[job_id].steps[p].started_at
               IN  /\ (old = NoTime /\ new # NoTime)
                        => /\ ctl'.op = "start_step" /\ ctl'.ret = "True"
                           /\ files'[job_id].steps[p].status = RUNNING
                   /\ (old # NoTime /\ new = NoTime) => ctl'.op = "set_job_plan"]_vars

\* a step completed without having been started, and one that was started
C33_Witness ==
    /\ ctl.op = "complete_step" /\ ctl.ret = "True"
    /\ Len(CtlJob.steps) = MaxSteps
    /\ CtlJob.steps[1].status # PENDING /\ CtlJob.steps[1].started_at # NoTime
    /\ CtlJob.steps[2].status # PENDING /\ CtlJob.steps[2].started_at = NoTime

\* the changes of a step's status the controller makes: a step is started,
\* a started step ends, a step that has ended is run again
StepMoves ==
    {<<PENDING, RUNNING>>, <<RUNNING, COMPLETED>>, <<RUNNING, FAILED>>,
     <<COMPLETED, RUNNING>>, <<FAILED, RUNNING>>}

\* C34: under execute_task, resume_job and retry_step, with administrative
\* calls and crashes in between, a step's status changes only from Pending
\* to Running, from Running to Completed or Failed, and from Completed or
\* Failed to Running; an interrupted step that is run again stays Running.
\* No step goes from Pending to Completed or Failed in one move and none
\* comes back to Pending.
C34_StepStatusMoves ==
    [][\A job_id \in DOMAIN files \cap DOMAIN files' :
          \A p \in DOMAIN files[job_id].steps \cap DOMAIN files'[job_id].steps :
             LET old == files[job_id].steps[p].status
                 new == files'[job_id].steps[p].status
             IN  old = new \/ <<old, new>> \in StepMoves]_vars

\* retry_step has started again a step that had ended
C34_Witness ==
    /\ ctl.op = "retry_step" /\ ctl.pc = "run"
    /\ \E p \in DOMAIN CtlJob.steps :
          /\ p = ListPos(Len(CtlJob.steps), ctl.i)
          /\ CtlJob.steps[p].status = RUNNING
          /\ CtlJob.steps[p].completed_at # NoTime

\* the store call just made returned success: True, or the id of the new job
ReturnedSuccess ==
    \/ ctl.op \in {"update_job_status", "set_job_plan", "start_step",
                   "complete_step", "delete_job"} /\ ctl.ret = "True"
    \/ ctl.op = "create_job" /\ ctl.ret \in JobIds

\* C35: after every store call that returns success the index is what
\* _load_jobs_index builds from the files: the same ids, and for each id
\* the status, created_at and updated_at of its record.
C35_IndexIsSummaryOfFiles ==
    ReturnedSuccess => jobs_index = _load_jobs_index(files)

\* what C36 compares: the job's status and each step's status and result
StatusView(job) ==
    [status |-> job.status,
     steps  |-> [p \in DOMAIN job.steps |->
                   [status |-> job.steps[p].status, result |-> job.steps[p].result]]]

\* the same complete_step call made once more, one instant later
CompletedAgain ==
    LET step == CtlJob.steps[ListPos(Len(CtlJob.steps), ctl.i)]
    IN  complete_step(Store, ctl.job_id, ctl.i, step.result, step.status,
                      clock + 1, clock + 1, TRUE)

\* C36: when complete_step(job_id, i, result, status) has returned True, the
\* same call made a second time returns True and leaves the job's status and
\* every step's status and result as the first call left them.
C36_CompleteStepTwiceKeepsStatus ==
    (ctl.op = "complete_step" /\ ctl.ret = "True")
       => /\ CompletedAgain.ret = "True"
          /\ StatusView(CompletedAgain.files[ctl.job_id]) = StatusView(CtlJob)
          /\ CompletedAgain.jobs_index[ctl.job_id].status = jobs_index[ctl.job_id].status

\* the second call rewrites the timestamps of a step that was started, on a
\* job that still has a step to run
C36_Witness ==
    /\ ctl.op = "complete_step" /\ ctl.ret = "True"
    /\ Len(CtlJob.steps) = MaxSteps
    /\ CtlJob.status = RUNNING
    /\ CtlJob.steps[ListPos(MaxSteps, ctl.i)].started_at # NoTime
    /\ CompletedAgain.files[ctl.job_id] # CtlJob

\* resume_job has found the job Paused or Running (agent_runner.py 266-268)
ResumeAccepted == ctl.op = "resume_job" /\ ctl.pc = "running"

\* C37: once resume_job has accepted a Paused or Running job and nothing
\* pauses, aborts or kills it, the job becomes Completed or Failed; and no
\* method returns leaving a job Running whose steps are all Completed or
\* Failed, or that has no steps.
C37_ResumeLeadsToTerminalJob ==
    /\ ResumeAccepted ~> /\ ctl.pc = "done" /\ ctl.job_id \in DOMAIN files
                          /\ CtlJob.status \in {COMPLETED, FAILED}
    /\ [](ctl.pc \in {"idle", "done"}
            => \A job_id \in DOMAIN files :
                  ~(files[job_id].status = RUNNING /\ all_completed(files[job_id].steps)))

\* the steps of a job that are Running
RunningSteps(job) == {p \in DOMAIN job.steps : job.steps[p].status = RUNNING}

\* C38: with one controller method on a job at a time, and crashes, pauses,
\* aborts, resume_job and retry_step in any order, a job never has two
\* steps Running.
C38_AtMostOneRunningStep ==
    \A job_id \in DOMAIN files : Cardinality(RunningSteps(files[job_id])) <= 1

\* the statuses on which a controller method must not start a step
Halted == {ABORTED, PAUSED}

\* C39: no controller method goes on to start_step when the job's status,
\* as the method last read it, is Aborted or Paused: execute_task and
\* resume_job read it before each step, retry_step on entry.
C39_NoStepStartedOnHaltedJob ==
    [][/\ (loop_check /\ ctl'.pc = "start") => files[ctl.job_id].status \notin Halted
       /\ (loop_start_step /\ ctl.op = "retry_step") => ctl.job.status \notin Halted]_vars

====
